---------------------------- MODULE Spec2Model ----------------------------
(***************************************************************************)
(* Model of src/src/features/reports.ts (setup-graalvm): the derivation    *)
(* helpers, the threshold classifier and the report assemblers.            *)
(*                                                                         *)
(* JavaScript numbers are IEEE-754 binary64.  The helpers divide two       *)
(* numbers and multiply the quotient by 100 before comparing it with a     *)
(* bound or printing it, so the rounding of both operations decides the    *)
(* outcome (1100000 / 1000000 * 100 is 110.00000000000001, not 110).  The  *)
(* model therefore carries a number as sign-free mantissa bits and an      *)
(* exponent and rounds to nearest, ties to even, as the hardware does.     *)
(* Inputs are integers below 2^31 (counts, bytes, whole seconds).          *)
(***************************************************************************)
EXTENDS Integers, Sequences, FiniteSets, TLC

VARIABLES
    pc,             \* position of the modelled caller
    value,          \* classifier: the current value
    compareValue,   \* classifier: the baseline value
    bounds,         \* classifier: <<lowerPercentageBoarder, higherPercentageBoarder>>
    column,         \* classifier: which of the three compare helpers is called
    cells,          \* classifier: the cell returned for each smallIsPositive
    argA,           \* derivation helpers: first argument
    argB,           \* derivation helpers: second argument
    out,            \* derivation helpers: the returned text
    current,        \* reports: the snapshot of this build (buildOutput)
    baseline,       \* reports: the snapshot of the PR base branch
    report,         \* reports: what the assembler returned
    inputs,         \* a run of the action: its inputs and the event that started it
    world,          \* a run: files, environment variables, stored base-branch metrics
    locals,         \* a run: the local constants of the running function
    effects         \* a run: the calls made on the outside, in order

classifierVars == <<value, compareValue, bounds, column, cells>>
derivationVars == <<argA, argB, out>>
reportVars == <<current, baseline, report>>
runVars == <<inputs, world, locals, effects>>
vars == <<pc, classifierVars, derivationVars, reportVars, runVars>>

\* no run of the action is under way
IdleRun == inputs = <<>> /\ world = <<>> /\ locals = <<>> /\ effects = <<>>

---------------------------------------------------------------------------
(* IEEE-754 binary64 arithmetic on non-negative operands *)

\* 52 stored fraction bits and the implicit leading bit
Precision == 52 + 1

\* A natural number of any size: its digits in base 2^10, the most
\* significant first, without leading zeros (<<>> is 0).
LimbBits == 9 + 1
Pow2(i) ==
    <<1, 2, 4, 8, 16, 32, 64, 128, 256, 512, 1024, 2048, 4096, 8192, 16384,
      32768, 65536, 131072, 262144, 524288, 1048576, 2097152, 4194304,
      8388608, 16777216, 33554432, 67108864, 134217728, 268435456,
      536870912, 1073741824>>[i + 1]
LimbBase == Pow2(LimbBits)

RECURSIVE BigOfNat(_)
BigOfNat(n) ==
    IF n = 0 THEN <<>> ELSE Append(BigOfNat(n \div LimbBase), n % LimbBase)

RECURSIVE NatOfBig(_)
NatOfBig(N) ==
    IF N = <<>> THEN 0
    ELSE LimbBase * NatOfBig(SubSeq(N, 1, Len(N) - 1)) + N[Len(N)]

\* number of bits of x: 0 for 0, k when 2^(k-1) <= x < 2^k
BitLen(x) == CHOOSE k \in 0..31 : (k = 0 \/ Pow2(k - 1) <= x) /\ (k = 31 \/ x < Pow2(k))

BigBitLen(N) == IF N = <<>> THEN 0 ELSE LimbBits * (Len(N) - 1) + BitLen(N[1])

\* bit i of N, bit 0 the least significant
BigBit(N, i) ==
    LET idx == Len(N) - (i \div LimbBits)
    IN IF i < 0 \/ idx < 1 THEN 0 ELSE (N[idx] \div Pow2(i % LimbBits)) % 2

\* floor(N / 2^d)
BigShr(N, d) ==
    LET q == d \div LimbBits
        s == d % LimbBits
        len == Len(N) - q
        raw == [j \in 1..len |->
                   (N[j] \div Pow2(s))
                   + (IF j > 1 THEN (N[j - 1] % Pow2(s)) * Pow2(LimbBits - s) ELSE 0)]
    IN IF len <= 0 THEN <<>>
       ELSE IF raw[1] = 0 THEN SubSeq(raw, 2, len)
       ELSE raw

\* N mod 2^d # 0
BigLowNonZero(N, d) == \E i \in 0..(d - 1) : BigBit(N, i) = 1

RECURSIVE BigInc(_)
BigInc(N) ==
    IF N = <<>> THEN <<1>>
    ELSE IF N[Len(N)] < LimbBase - 1 THEN [N EXCEPT ![Len(N)] = @ + 1]
    ELSE Append(BigInc(SubSeq(N, 1, Len(N) - 1)), 0)

\* N * k + carry for a small k
RECURSIVE BigMulSmall(_, _, _)
BigMulSmall(N, k, carry) ==
    IF N = <<>> THEN BigOfNat(carry)
    ELSE LET t == N[Len(N)] * k + carry
         IN Append(BigMulSmall(SubSeq(N, 1, Len(N) - 1), k, t \div LimbBase),
                   t % LimbBase)

Pow10(d) == CASE d = 0 -> 1 [] d = 1 -> 10 [] d = 2 -> 100 [] OTHER -> 1000

Zero == [kind |-> "zero", m |-> <<>>, e |-> 0]
Inf == [kind |-> "inf", m |-> <<>>, e |-> 0]
NaN == [kind |-> "nan", m |-> <<>>, e |-> 0]
\* a finite positive number: the mantissa m (at most Precision bits) times 2^e
Fin(m, e) == [kind |-> "fin", m |-> m, e |-> e]

\* The mantissa m1 after rounding, one bit too long when the rounding carried
\* into a new bit
Renormalized(m1, e) ==
    IF BigBitLen(m1) > Precision THEN Fin(BigShr(m1, 1), e + 1) ELSE Fin(m1, e)

\* N with its d low bits dropped is kept; the dropped bits decide the rounding
RoundKept(N, kept, d, e, sticky) ==
    Renormalized(IF BigBit(N, d - 1) = 1 /\ (sticky \/ BigLowNonZero(N, d - 1) \/ BigBit(kept, 0) = 1) THEN BigInc(kept) ELSE kept, e + d)

\* Round the exact value N * 2^e (plus a non-zero part below the last bit
\* when sticky) to Precision bits: to nearest, ties to even.
RoundBig(N, e, sticky) ==
    IF BigBitLen(N) <= Precision THEN Fin(N, e)
    ELSE RoundKept(N, BigShr(N, BigBitLen(N) - Precision), BigBitLen(N) - Precision, e, sticky)

\* Long division, one limb a step: N holds the quotient digits found so far,
\* r the remainder (r < b), and the exact quotient is (N + r / b) * 2^e.
RECURSIVE DivLimbs(_, _, _, _)
DivLimbs(N, r, b, e) ==
    IF BigBitLen(N) > Precision + 1 \/ (r = 0 /\ N # <<>>)
    THEN RoundBig(N, e, r # 0)
    ELSE LET t == r * LimbBase
             limb == t \div b
         IN DivLimbs(IF N = <<>> /\ limb = 0 THEN N ELSE Append(N, limb),
                     t % b, b, e - LimbBits)

\* the number of times 2 divides b (b > 0)
TwoAdic(b) == CHOOSE k \in 0..30 : b % Pow2(k) = 0 /\ (k = 30 \/ b % Pow2(k + 1) # 0)

\* a / b for integers a >= 0, b >= 0.  Dividing by 2^k only lowers the
\* exponent, so the division is done by the odd part of b (at most 2^21).
FDiv(a, b) ==
    IF b = 0 THEN (IF a = 0 THEN NaN ELSE Inf)
    ELSE IF a = 0 THEN Zero
    ELSE LET k == TwoAdic(b)
             odd == b \div Pow2(k)
         IN DivLimbs(BigOfNat(a \div odd), a % odd, odd, -k)

\* d * k for a small integer k > 0
FMul(d, k) ==
    IF d.kind = "fin" THEN RoundBig(BigMulSmall(d.m, k, 0), d.e, FALSE) ELSE d

\* the integer part ip and a non-zero fraction frac, compared with L
CmpParts(ip, frac, L) == IF ip < L THEN -1 ELSE IF ip > L THEN 1 ELSE IF frac THEN 1 ELSE 0

\* -1, 0, 1 as d is below, equal to or above the integer L (d not NaN)
FCmp(d, L) ==
    CASE d.kind = "zero" -> (IF 0 < L THEN -1 ELSE IF 0 = L THEN 0 ELSE 1)
      [] d.kind = "inf" -> 1
      [] OTHER ->
         IF BigBitLen(d.m) + d.e > 30 THEN 1
         ELSE CmpParts(IF d.e >= 0 THEN NatOfBig(d.m) * Pow2(d.e) ELSE NatOfBig(BigShr(d.m, -d.e)), d.e < 0 /\ BigLowNonZero(d.m, -d.e), L)

FLess(d, L) == d.kind # "nan" /\ FCmp(d, L) = -1
FGreater(d, L) == d.kind # "nan" /\ FCmp(d, L) = 1

---------------------------------------------------------------------------
(* Number.prototype.toFixed and the texts built from it *)

\* A printed number: sign, the digits before and after the decimal point
\* (n = |x| * 10^digits is whole * 10^digits + frac), and the unit that
\* follows it.  kind is "num", "NaN" or "Infinity".
NumText(sign, kind, n, digits, unit) ==
    [sign |-> sign, kind |-> kind, whole |-> n \div Pow10(digits),
     frac |-> n % Pow10(digits), digits |-> digits, unit |-> unit]

NoText == NumText("", "none", 0, 0, "")

\* The integer n for which n / 10^digits - d is closest to zero, the larger
\* n when there are two.
FixedDigits(d, digits) ==
    IF d.kind = "zero" THEN 0
    ELSE LET p == BigMulSmall(d.m, Pow10(digits), 0)
         IN IF d.e >= 0 THEN NatOfBig(p) * Pow2(d.e)
            ELSE NatOfBig(BigShr(p, -d.e)) + BigBit(p, -d.e - 1)

\* x.toFixed(digits) for x = d, or x = -d when neg
ToFixed(neg, d, digits) ==
    CASE d.kind = "nan" -> NumText("", "NaN", 0, digits, "")
      [] d.kind = "inf" -> NumText(IF neg THEN "-" ELSE "", "Infinity", 0, digits, "")
      [] OTHER -> NumText(IF neg THEN "-" ELSE "", "num", FixedDigits(d, digits), digits, "")

\* x.toFixed(digits) for an integer x
IntToFixed(x, digits) ==
    [sign |-> IF x < 0 THEN "-" ELSE "", kind |-> "num",
     whole |-> IF x < 0 THEN -x ELSE x, frac |-> 0, digits |-> digits, unit |-> ""]

Pad(f, digits) ==
    CASE digits = 3 /\ f < 10 -> "00" \o ToString(f)
      [] digits = 3 /\ f < 100 -> "0" \o ToString(f)
      [] digits = 2 /\ f < 10 -> "0" \o ToString(f)
      [] OTHER -> ToString(f)

\* The characters of a printed number
Text(t) ==
    CASE t.kind = "none" -> ""
      [] t.kind = "num" ->
         t.sign \o ToString(t.whole)
           \o (IF t.digits = 0 THEN ""
               ELSE "." \o Pad(t.frac, t.digits))
           \o t.unit
      [] OTHER -> t.sign \o t.kind \o t.unit

WithUnit(t, unit) == [t EXCEPT !.unit = unit]
WithSign(t, sign) == [t EXCEPT !.sign = sign]

---------------------------------------------------------------------------
(* Derivation helpers *)

BYTES_TO_KiB == 1024
BYTES_TO_MiB == 1024 * 1024
BYTES_TO_GiB == 1024 * 1024 * 1024

Abs(x) == IF x < 0 THEN -x ELSE x

toPercent(part, total) ==
    WithUnit(ToFixed(FALSE, FMul(FDiv(part, total), 100), 3), "%")

\* getDiffPercent with the sign test written as <=
getDiffPercent_MinusOnEqual(baseValue, recentValue) ==
    LET sign == IF recentValue <= baseValue THEN "-" ELSE "+"
        mag == ToFixed(FALSE, FMul(FDiv(Abs(recentValue - baseValue), baseValue), 100), 3)
    IN WithUnit(WithSign(mag, sign), "%")

getDiffPercent(baseValue, recentValue) ==
    LET sign == IF recentValue < baseValue THEN "-" ELSE "+"
        mag == ToFixed(FALSE, FMul(FDiv(Abs(recentValue - baseValue), baseValue), 100), 3)
    IN WithUnit(WithSign(mag, sign), "%")

\* bytesToHuman with the thresholds compared to bytes, not Math.abs(bytes)
bytesToHuman_NoAbs(bytes) ==
    IF bytes < BYTES_TO_KiB
    THEN WithUnit(IntToFixed(bytes, 2), "B")
    ELSE IF bytes < BYTES_TO_MiB
    THEN WithUnit(ToFixed(bytes < 0, FDiv(Abs(bytes), BYTES_TO_KiB), 2), "KB")
    ELSE IF bytes < BYTES_TO_GiB
    THEN WithUnit(ToFixed(bytes < 0, FDiv(Abs(bytes), BYTES_TO_MiB), 2), "MB")
    ELSE WithUnit(ToFixed(bytes < 0, FDiv(Abs(bytes), BYTES_TO_GiB), 2), "GB")

bytesToHuman(bytes) ==
    IF Abs(bytes) < BYTES_TO_KiB
    THEN WithUnit(IntToFixed(bytes, 2), "B")
    ELSE IF Abs(bytes) < BYTES_TO_MiB
    THEN WithUnit(ToFixed(bytes < 0, FDiv(Abs(bytes), BYTES_TO_KiB), 2), "KB")
    ELSE IF Abs(bytes) < BYTES_TO_GiB
    THEN WithUnit(ToFixed(bytes < 0, FDiv(Abs(bytes), BYTES_TO_MiB), 2), "MB")
    ELSE WithUnit(ToFixed(bytes < 0, FDiv(Abs(bytes), BYTES_TO_GiB), 2), "GB")

---------------------------------------------------------------------------
(* Threshold classifier: the compare cell of one metric *)

GREEN == ":green_circle:"
RED == ":red_circle:"

\* an optional value: absent (null / undefined) or present
None == <<>>
Some(v) == <<v>>
Get(o) == o[1]

\* One of the three template lines of a compare cell: '' or
\* `<marker> <delta> (<percent>) <marker>`
NoLine == [shown |-> FALSE, marker |-> "", delta |-> NoText, percent |-> NoText]
Line(marker, delta, percent) ==
    [shown |-> TRUE, marker |-> marker, delta |-> delta, percent |-> percent]

\* '' (no <td> at all), or the <td> with its three lines
NoCell == [td |-> FALSE, lines |-> <<>>]
Cell(lines) == [td |-> TRUE, lines |-> lines]

\* The three conditional lines of a cell for ratio = value / compareValue * 100
CompareLines(ratio, lower, higher, lowMarker, highMarker, delta, percent) ==
    << IF FLess(ratio, lower) THEN Line(lowMarker, delta, percent) ELSE NoLine,
       IF FGreater(ratio, lower) /\ FLess(ratio, higher)
          THEN Line("", delta, percent) ELSE NoLine,
       IF FGreater(ratio, higher) THEN Line(highMarker, delta, percent) ELSE NoLine >>

\* The cell for ratio = value / compareValue * 100: the markers of the low and
\* the high band exchange places with the polarity
CompareCell(ratio, lower, higher, smallIsPositive, delta, percent) ==
    IF smallIsPositive
    THEN Cell(CompareLines(ratio, lower, higher, GREEN, RED, delta, percent))
    ELSE Cell(CompareLines(ratio, lower, higher, RED, GREEN, delta, percent))

getCompareColumnTime(v, cv, lower, higher, smallIsPositive) ==
    IF cv = None THEN NoCell
    ELSE CompareCell(FMul(FDiv(v, Get(cv)), 100), lower, higher, smallIsPositive, WithUnit(IntToFixed(v - Get(cv), 2), "s"), getDiffPercent(Get(cv), v))

\* getCompareColumnBytes with the operands of the ratio exchanged
getCompareColumnBytes_InvertedRatio(v, cv, lower, higher, smallIsPositive) ==
    IF cv = None THEN NoCell
    ELSE CompareCell(FMul(FDiv(Get(cv), v), 100), lower, higher, smallIsPositive, bytesToHuman(v - Get(cv)), getDiffPercent(Get(cv), v))

getCompareColumnBytes(v, cv, lower, higher, smallIsPositive) ==
    IF cv = None THEN NoCell
    ELSE CompareCell(FMul(FDiv(v, Get(cv)), 100), lower, higher, smallIsPositive, bytesToHuman(v - Get(cv)), getDiffPercent(Get(cv), v))

\* getCompareColumn with the polarity flag ignored
getCompareColumn_IgnoresPolarity(v, cv, lower, higher, smallIsPositive) ==
    IF cv = None THEN NoCell
    ELSE Cell(CompareLines(FMul(FDiv(v, Get(cv)), 100), lower, higher, GREEN, RED,
                           IntToFixed(v - Get(cv), 2), getDiffPercent(Get(cv), v)))

getCompareColumn(v, cv, lower, higher, smallIsPositive) ==
    IF cv = None THEN NoCell
    ELSE CompareCell(FMul(FDiv(v, Get(cv)), 100), lower, higher, smallIsPositive, IntToFixed(v - Get(cv), 2), getDiffPercent(Get(cv), v))

---------------------------------------------------------------------------
(* The classifier called on one metric, under either polarity *)

MaxValue == 120
Scale == 10000

\* <<current, baseline>>: every percentage up to MaxValue of the baseline
\* 100, a zero and an absent baseline, and byte-sized values
ClassifierInputs ==
    {<<v, Some(b)>> : v \in 0..MaxValue, b \in {0, 100}}
    \cup {<<v * Scale, Some(100 * Scale)>> : v \in {90, 98, 103, 108, 110, 120}}
    \cup {<<v, None>> : v \in {0, 100}}

\* the bounds the call sites pass, and a wider pair
BoundPairs == {<<98, 108>>, <<98, 110>>, <<50, 120>>}

Columns == {"plain", "bytes", "time"}

InitClassifier ==
    /\ pc = "classify"
    /\ IdleRun
    /\ \E i \in ClassifierInputs : value = i[1] /\ compareValue = i[2]
    /\ bounds \in BoundPairs
    /\ column \in Columns
    /\ cells = [s \in BOOLEAN |-> None]
    /\ argA = 0 /\ argB = 0
    /\ out = [fn |-> "", text |-> NoText]
    /\ current = None /\ baseline = None /\ report = [kind |-> "none"]

CallGetCompareColumn(s) ==
    /\ pc = "classify" /\ column = "plain" /\ cells[s] = None
    /\ cells' = [cells EXCEPT ![s] =
                    Some(getCompareColumn(value, compareValue, bounds[1], bounds[2], s))]
    /\ UNCHANGED <<pc, value, compareValue, bounds, column, derivationVars, reportVars, runVars>>

CallGetCompareColumnBytes(s) ==
    /\ pc = "classify" /\ column = "bytes" /\ cells[s] = None
    /\ cells' = [cells EXCEPT ![s] =
                    Some(getCompareColumnBytes(value, compareValue, bounds[1], bounds[2], s))]
    /\ UNCHANGED <<pc, value, compareValue, bounds, column, derivationVars, reportVars, runVars>>

CallGetCompareColumnTime(s) ==
    /\ pc = "classify" /\ column = "time" /\ cells[s] = None
    /\ cells' = [cells EXCEPT ![s] =
                    Some(getCompareColumnTime(value, compareValue, bounds[1], bounds[2], s))]
    /\ UNCHANGED <<pc, value, compareValue, bounds, column, derivationVars, reportVars, runVars>>

NextClassifier ==
    \E s \in BOOLEAN :
        \/ CallGetCompareColumn(s)
        \/ CallGetCompareColumnBytes(s)
        \/ CallGetCompareColumnTime(s)

SpecClassifier == InitClassifier /\ [][NextClassifier]_vars

---------------------------------------------------------------------------
(* The derivation helpers called on one pair of arguments *)

MaxArg == 150

Denominators == {0, 1, 3, 7, 100, 150}

ByteCounts ==
    {s * x : s \in {-1, 1},
             x \in {0, 1, 1023, 1024, 1025, 1536, BYTES_TO_MiB - 1, BYTES_TO_MiB,
                    BYTES_TO_MiB + 1, BYTES_TO_GiB - 1, BYTES_TO_GiB,
                    BYTES_TO_GiB + BYTES_TO_MiB}}

\* <<argA, argB>>: a part or recent value with a total or base value, or a
\* byte count alone
DerivationInputs ==
    {<<a, b>> : a \in 0..MaxArg, b \in Denominators}
    \cup {<<b, 0>> : b \in ByteCounts \cup {-a : a \in 1..MaxArg}}

InitDerivation ==
    /\ pc = "derive"
    /\ IdleRun
    /\ \E i \in DerivationInputs : argA = i[1] /\ argB = i[2]
    /\ out = [fn |-> "", text |-> NoText]
    /\ value = 0 /\ compareValue = None /\ bounds = <<98, 108>>
    /\ column = "plain" /\ cells = [s \in BOOLEAN |-> None]
    /\ current = None /\ baseline = None /\ report = [kind |-> "none"]

CallToPercent ==
    /\ pc = "derive" /\ argA >= 0
    /\ out' = [fn |-> "toPercent", text |-> toPercent(argA, argB)]
    /\ pc' = "derived"
    /\ UNCHANGED <<classifierVars, argA, argB, reportVars, runVars>>

CallGetDiffPercent ==
    /\ pc = "derive" /\ argA >= 0
    /\ out' = [fn |-> "getDiffPercent", text |-> getDiffPercent(argB, argA)]
    /\ pc' = "derived"
    /\ UNCHANGED <<classifierVars, argA, argB, reportVars, runVars>>

CallBytesToHuman ==
    /\ pc = "derive" /\ argB = 0
    /\ out' = [fn |-> "bytesToHuman", text |-> bytesToHuman(argA)]
    /\ pc' = "derived"
    /\ UNCHANGED <<classifierVars, argA, argB, reportVars, runVars>>

---------------------------------------------------------------------------
(* Report assemblers.  A report is kept as its sections, rows and cells    *)
(* rather than as markup; the header line and the environment table, which *)
(* print general_info unchanged, are left out.  Counts printed with        *)
(* toLocaleString are kept as the number.                                  *)

Hundred == NumText("", "num", 100000, 3, "%")

getCompareTableHeader(compareBranch) ==
    IF compareBranch = None THEN <<>>
    ELSE <<"Compared to " \o Get(compareBranch)>>

getResourcesUsageHeader(compareBranch) ==
    IF compareBranch = None THEN <<>>
    ELSE <<"Category", "Resources">> \o getCompareTableHeader(compareBranch)

getDebugInfoLine(details, debugInfoBytes) ==
    IF details.debug_info # None
    THEN Some([size |-> bytesToHuman(debugInfoBytes),
               percent |-> toPercent(debugInfoBytes, details.total_bytes),
               compare |-> NoCell])
    ELSE None

getTotalTimeRatio(resources) ==
    IF resources.total_secs # None /\ Get(resources.total_secs) # 0
    THEN Some(toPercent(resources.garbage_collection.total_secs,
                        Get(resources.total_secs)))
    ELSE None

\* one count of the Analysis Results grid with its share and compare cell
AnalysisCell(category, compareCategory, row) ==
    [count |-> category[row],
     percent |-> IF row = "total" THEN Hundred
                 ELSE toPercent(category[row], category.total),
     compare |-> IF compareCategory # None
                 THEN getCompareColumn(category[row], Some(Get(compareCategory)[row]),
                                       98, 108, TRUE)
                 ELSE NoCell]

AnalysisRows == {"reachable", "reflection", "jni", "total"}

getAnalysisTable(analysis, analysisTypes, compareAnalysis, compareAnalysisType, compareBranch) ==
    [header |-> <<"Category", "Types", "in %">> \o getCompareTableHeader(compareBranch)
                \o <<"Fields", "in %">> \o getCompareTableHeader(compareBranch)
                \o <<"Methods", "in %">> \o getCompareTableHeader(compareBranch),
     types |-> [r \in AnalysisRows |->
                   AnalysisCell(analysisTypes, compareAnalysisType, r)],
     fields |-> [r \in AnalysisRows |->
                   AnalysisCell(analysis.fields,
                                IF compareAnalysis # None
                                THEN Some(Get(compareAnalysis).fields) ELSE None, r)],
     methods |-> [r \in AnalysisRows |->
                   AnalysisCell(analysis.methods,
                                IF compareAnalysis # None
                                THEN Some(Get(compareAnalysis).methods) ELSE None, r)]]

\* getDetailsTable with the bounds of the other two tables
getDetailsTable_Upper108(details, objectCount, debugInfoLine, otherBytes, compareDetails, compareBranch, compareOtherBytes) ==
    [header |-> <<"Category", "Size", "in %">> \o getCompareTableHeader(compareBranch)
                \o <<"Details">>,
     code_area |->
        [size |-> bytesToHuman(details.code_area.bytes),
         percent |-> toPercent(details.code_area.bytes, details.total_bytes),
         compare |-> IF compareDetails # None
                     THEN getCompareColumnBytes(details.code_area.bytes,
                             Some(Get(compareDetails).code_area.bytes), 98, 108, TRUE)
                     ELSE NoCell,
         details |-> details.code_area.compilation_units],
     image_heap |->
        [size |-> bytesToHuman(details.image_heap.bytes),
         percent |-> toPercent(details.image_heap.bytes, details.total_bytes),
         compare |-> IF compareDetails # None
                     THEN getCompareColumnBytes(details.image_heap.bytes,
                             Some(Get(compareDetails).image_heap.bytes), 98, 108, TRUE)
                     ELSE NoCell,
         details |-> [objects |-> objectCount,
                      bytes |-> bytesToHuman(details.image_heap.resources.bytes),
                      count |-> details.image_heap.resources.count]],
     debug_info |-> debugInfoLine,
     other |->
        [size |-> bytesToHuman(otherBytes),
         percent |-> toPercent(otherBytes, details.total_bytes),
         compare |-> IF compareOtherBytes # None
                     THEN getCompareColumnBytes(otherBytes, compareOtherBytes,
                                                98, 108, TRUE)
                     ELSE NoCell],
     total |->
        [size |-> bytesToHuman(details.total_bytes),
         percent |-> Hundred,
         compare |-> IF compareDetails # None
                     THEN getCompareColumnBytes(details.total_bytes,
                             Some(Get(compareDetails).total_bytes), 98, 108, TRUE)
                     ELSE NoCell]]

getDetailsTable(details, objectCount, debugInfoLine, otherBytes, compareDetails, compareBranch, compareOtherBytes) ==
    [header |-> <<"Category", "Size", "in %">> \o getCompareTableHeader(compareBranch)
                \o <<"Details">>,
     code_area |->
        [size |-> bytesToHuman(details.code_area.bytes),
         percent |-> toPercent(details.code_area.bytes, details.total_bytes),
         compare |-> IF compareDetails # None
                     THEN getCompareColumnBytes(details.code_area.bytes,
                             Some(Get(compareDetails).code_area.bytes), 98, 110, TRUE)
                     ELSE NoCell,
         details |-> details.code_area.compilation_units],
     image_heap |->
        [size |-> bytesToHuman(details.image_heap.bytes),
         percent |-> toPercent(details.image_heap.bytes, details.total_bytes),
         compare |-> IF compareDetails # None
                     THEN getCompareColumnBytes(details.image_heap.bytes,
                             Some(Get(compareDetails).image_heap.bytes), 98, 110, TRUE)
                     ELSE NoCell,
         details |-> [objects |-> objectCount,
                      bytes |-> bytesToHuman(details.image_heap.resources.bytes),
                      count |-> details.image_heap.resources.count]],
     debug_info |-> debugInfoLine,
     other |->
        [size |-> bytesToHuman(otherBytes),
         percent |-> toPercent(otherBytes, details.total_bytes),
         compare |-> IF compareOtherBytes # None
                     THEN getCompareColumnBytes(otherBytes, compareOtherBytes,
                                                98, 110, TRUE)
                     ELSE NoCell],
     total |->
        [size |-> bytesToHuman(details.total_bytes),
         percent |-> Hundred,
         compare |-> IF compareDetails # None
                     THEN getCompareColumnBytes(details.total_bytes,
                             Some(Get(compareDetails).total_bytes), 98, 110, TRUE)
                     ELSE NoCell]]

getResourceUsageTable(resources, gcTotalTimeRatio, compareResources, compareBranch) ==
    [header |-> getResourcesUsageHeader(compareBranch),
     garbage_collection |->
        [secs |-> WithUnit(IntToFixed(resources.garbage_collection.total_secs, 2), "s"),
         ratio |-> gcTotalTimeRatio,
         count |-> resources.garbage_collection.count,
         compare |-> IF compareResources # None
                     THEN getCompareColumnTime(resources.garbage_collection.total_secs,
                             Some(Get(compareResources).garbage_collection.total_secs),
                             98, 108, TRUE)
                     ELSE NoCell],
     peak_rss |->
        [size |-> bytesToHuman(resources.memory.peak_rss_bytes),
         percent |-> toPercent(resources.memory.peak_rss_bytes,
                               resources.memory.system_total),
         total |-> bytesToHuman(resources.memory.system_total),
         compare |-> IF compareResources # None
                     THEN getCompareColumnBytes(resources.memory.peak_rss_bytes,
                             Some(Get(compareResources).memory.peak_rss_bytes),
                             98, 108, TRUE)
                     ELSE NoCell],
     cpu_load |->
        [load |-> IntToFixed(resources.cpu.load, 3),
         percent |-> toPercent(resources.cpu.load, resources.cpu.total_cores),
         cores |-> resources.cpu.total_cores,
         compare |-> IF compareResources # None
                     THEN getCompareColumn(resources.cpu.load,
                             Some(Get(compareResources).cpu.load), 98, 108, TRUE)
                     ELSE NoCell]]

\* the name of the base branch (process.env.GITHUB_BASE_REF on a PR event)
GITHUB_BASE_REF == "main"

\* createReport(data, compareData): compareData is None for the default null
createReport(data, compareData) ==
    LET analysis == data.analysis_results
        analysisTypes == IF analysis.types # None THEN Get(analysis.types)
                         ELSE analysis.classes
        details == data.image_details
        objectCount == IF details.image_heap.objects # None
                       THEN Some(Get(details.image_heap.objects).count) ELSE None
        debugInfoBytes == IF details.debug_info # None
                          THEN Get(details.debug_info).bytes ELSE 0
        otherBytes == details.total_bytes - details.code_area.bytes
                      - details.image_heap.bytes - debugInfoBytes
        debugInfoLine == getDebugInfoLine(details, debugInfoBytes)
        resources == data.resource_usage
        gcTotalTimeRatio == getTotalTimeRatio(resources)
        compareBranch == IF compareData # None THEN Some(GITHUB_BASE_REF) ELSE None
        compareDetails == IF compareData # None
                          THEN Some(Get(compareData).image_details) ELSE None
        compareDebugInfoBytes ==
            IF Get(compareDetails).debug_info # None
            THEN Get(Get(compareDetails).debug_info).bytes ELSE 0
        compareOtherBytes ==
            IF compareData # None
            THEN Some(Get(compareDetails).total_bytes
                      - Get(compareDetails).code_area.bytes
                      - Get(compareDetails).image_heap.bytes
                      - compareDebugInfoBytes)
            ELSE None
        compareResources == IF compareData # None
                            THEN Some(Get(compareData).resource_usage) ELSE None
        compareAnalysis == IF compareData # None
                           THEN Some(Get(compareData).analysis_results) ELSE None
        compareAnalysisTypes ==
            IF compareData # None
            THEN Some(IF Get(compareAnalysis).types # None
                      THEN Get(Get(compareAnalysis).types)
                      ELSE Get(compareAnalysis).classes)
            ELSE None
    IN [kind |-> IF compareData = None THEN "report" ELSE "comparison",
        analysis |-> getAnalysisTable(analysis, analysisTypes, compareAnalysis,
                                      compareAnalysisTypes, compareBranch),
        details |-> getDetailsTable(details, objectCount, debugInfoLine, otherBytes,
                                    compareDetails, compareBranch, compareOtherBytes),
        resources |-> getResourceUsageTable(resources, gcTotalTimeRatio,
                                            compareResources, compareBranch),
        footer |-> TRUE]

\* normalizeValue with its two arguments exchanged
normalizeValue_Exchanged(v, baseValue) ==
    ToFixed(FALSE, FMul(FDiv(baseValue, v), 100), 0)

normalizeValue(v, baseValue) == ToFixed(FALSE, FMul(FDiv(v, baseValue), 100), 0)

\* a bar of a gantt chart: its label and where it ends
Bar(label, end) == [label |-> label, end |-> end]
Bars(recent, base) == [recent |-> recent, base |-> base]

createComparedDetailsDiagramm(detailsRecent, detailsBase, otherBytesBase, otherBytesRecent) ==
    [code_area |-> Bars(Bar(bytesToHuman(detailsRecent.code_area.bytes),
                            detailsRecent.code_area.bytes),
                        Bar(bytesToHuman(detailsBase.code_area.bytes),
                            detailsBase.code_area.bytes)),
     image_heap |-> Bars(Bar(bytesToHuman(detailsRecent.image_heap.bytes),
                             detailsRecent.image_heap.bytes),
                         Bar(bytesToHuman(detailsBase.image_heap.bytes),
                             detailsBase.image_heap.bytes)),
     other |-> Bars(Bar(bytesToHuman(otherBytesRecent), otherBytesRecent),
                    Bar(bytesToHuman(otherBytesBase), otherBytesBase)),
     total |-> Bars(Bar(bytesToHuman(detailsRecent.total_bytes),
                        detailsRecent.total_bytes),
                    Bar(bytesToHuman(detailsBase.total_bytes),
                        detailsBase.total_bytes))]

\* analysisTypeBase is a plain record here: the caller's undefined is dealt
\* with in createPRComparison
createComparedAnalysisResultsDiagramm(analysisRecent, analysisTypesRecent, analysisBase, analysisTypeBase) ==
    [types |-> [r \in AnalysisRows |->
                   Bars(Bar(analysisTypesRecent[r], analysisTypesRecent[r]),
                        Bar(analysisTypeBase[r], analysisTypeBase[r]))],
     fields |-> [r \in AnalysisRows |->
                   Bars(Bar(analysisRecent.fields[r], analysisRecent.fields[r]),
                        Bar(analysisBase.fields[r], analysisBase.fields[r]))],
     methods |-> [r \in AnalysisRows |->
                   Bars(Bar(analysisRecent.methods[r], analysisRecent.methods[r]),
                        Bar(analysisBase.methods[r], analysisBase.methods[r]))]]

createComparedResourceUsageDiagramm(resourcesRecent, resourcesBase) ==
    [garbage_collection |->
        Bars(Bar(resourcesRecent.garbage_collection.total_secs, 100),
             Bar(resourcesBase.garbage_collection.total_secs,
                 normalizeValue(resourcesBase.garbage_collection.total_secs,
                                resourcesRecent.garbage_collection.total_secs))),
     peak_rss |->
        Bars(Bar(bytesToHuman(resourcesRecent.memory.peak_rss_bytes), 100),
             Bar(bytesToHuman(resourcesBase.memory.peak_rss_bytes),
                 normalizeValue(resourcesBase.memory.peak_rss_bytes,
                                resourcesRecent.memory.peak_rss_bytes))),
     cpu_load |->
        Bars(Bar(bytesToHuman(resourcesRecent.cpu.load), 100),
             Bar(bytesToHuman(resourcesBase.cpu.load),
                 normalizeValue(resourcesBase.cpu.load, resourcesRecent.cpu.load)))]

\* resource_usage of a BuildOutput whose three compared figures follow x
ResourceUsage(x) ==
    [cpu |-> [load |-> x, total_cores |-> 128],
     garbage_collection |-> [count |-> 20, total_secs |-> x],
     memory |-> [system_total |-> BYTES_TO_GiB, peak_rss_bytes |-> BYTES_TO_KiB * x]]

\* createComparedResourceUsageDiagramm on a recent figure argB and a base
\* figure argA
CallCreateComparedResourceUsageDiagramm ==
    /\ pc = "derive" /\ argA \in 0..MaxArg
    /\ report' = [kind |-> "resource chart",
                  resources |-> createComparedResourceUsageDiagramm(
                                   ResourceUsage(argB), ResourceUsage(argA))]
    /\ pc' = "derived"
    /\ UNCHANGED <<classifierVars, derivationVars, current, baseline, runVars>>

NextDerivation ==
    \/ CallToPercent
    \/ CallGetDiffPercent
    \/ CallBytesToHuman
    \/ CallCreateComparedResourceUsageDiagramm

SpecDerivation == InitDerivation /\ [][NextDerivation]_vars

\* A string is kept as the sequence of its characters.
\* String.prototype.toLowerCase on one character
LowerCaseChar(ch) ==
    CASE ch = "A" -> "a"
      [] ch = "B" -> "b"
      [] ch = "C" -> "c"
      [] ch = "D" -> "d"
      [] ch = "E" -> "e"
      [] ch = "F" -> "f"
      [] ch = "G" -> "g"
      [] ch = "H" -> "h"
      [] ch = "I" -> "i"
      [] ch = "J" -> "j"
      [] ch = "K" -> "k"
      [] ch = "L" -> "l"
      [] ch = "M" -> "m"
      [] ch = "N" -> "n"
      [] ch = "O" -> "o"
      [] ch = "P" -> "p"
      [] ch = "Q" -> "q"
      [] ch = "R" -> "r"
      [] ch = "S" -> "s"
      [] ch = "T" -> "t"
      [] ch = "U" -> "u"
      [] ch = "V" -> "v"
      [] ch = "W" -> "w"
      [] ch = "X" -> "x"
      [] ch = "Y" -> "y"
      [] ch = "Z" -> "z"
      [] OTHER -> ch

toLowerCase(s) == [i \in 1..Len(s) |-> LowerCaseChar(s[i])]

\* String.prototype.includes
includes(s, t) ==
    \E i \in 0..(Len(s) - Len(t)) : SubSeq(s, i + 1, i + Len(t)) = t

Categories == {"analysis results", "image details", "resource usage"}

\* the characters of a category literal
Chars(category) ==
    CASE category = "analysis results" ->
           <<"a", "n", "a", "l", "y", "s", "i", "s", " ", "r", "e", "s", "u", "l",
             "t", "s">>
      [] category = "image details" ->
           <<"i", "m", "a", "g", "e", " ", "d", "e", "t", "a", "i", "l", "s">>
      [] category = "resource usage" ->
           <<"r", "e", "s", "o", "u", "r", "c", "e", " ", "u", "s", "a", "g", "e">>

\* createPRComparison(dataRecent, dataBase); comparePara is what
\* getPRComparePara() returns.  Reading a property of the undefined
\* analysisTypesBase throws a TypeError.
createPRComparison(dataRecent, dataBase, comparePara) ==
    LET analysisRecent == dataRecent.analysis_results
        analysisTypesRecent == IF analysisRecent.types # None
                               THEN Get(analysisRecent.types)
                               ELSE analysisRecent.classes
        analysisBase == dataBase.analysis_results
        analysisTypesBase == IF analysisRecent.types # None
                             THEN analysisBase.types
                             ELSE Some(analysisBase.classes)
        detailsRecent == dataRecent.image_details
        detailsBase == dataBase.image_details
        debugInfoBytesRecent == IF detailsBase.debug_info # None
                                THEN Get(detailsBase.debug_info).bytes ELSE 0
        debugInfoBytesBase == IF detailsBase.debug_info # None
                              THEN Get(detailsBase.debug_info).bytes ELSE 0
        otherBytesRecent == detailsRecent.total_bytes - detailsRecent.code_area.bytes
                            - detailsRecent.image_heap.bytes - debugInfoBytesRecent
        otherBytesBase == detailsBase.total_bytes - detailsBase.code_area.bytes
                          - detailsBase.image_heap.bytes - debugInfoBytesBase
        resourcesRecent == dataRecent.resource_usage
        resourcesBase == dataBase.resource_usage
        compareParameter == toLowerCase(comparePara)
    IN IF includes(compareParameter, Chars("analysis results"))
          /\ analysisTypesBase = None
       THEN [kind |-> "TypeError", parameter |-> comparePara]
       ELSE [kind |-> "chart",
             parameter |-> comparePara,
             analysis |-> IF includes(compareParameter, Chars("analysis results"))
                          THEN Some(createComparedAnalysisResultsDiagramm(
                                       analysisRecent, analysisTypesRecent,
                                       analysisBase, Get(analysisTypesBase)))
                          ELSE None,
             details |-> IF includes(compareParameter, Chars("image details"))
                         THEN Some(createComparedDetailsDiagramm(
                                      detailsRecent, detailsBase,
                                      otherBytesBase, otherBytesRecent))
                         ELSE None,
             resources |-> IF includes(compareParameter, Chars("resource usage"))
                           THEN Some(createComparedResourceUsageDiagramm(
                                        resourcesRecent, resourcesBase))
                           ELSE None,
             footer |-> TRUE]

---------------------------------------------------------------------------
(* The assemblers called on a pair of snapshots *)

AnalysisResult(total, reachable, reflection, jni) ==
    [total |-> total, reachable |-> reachable, reflection |-> reflection, jni |-> jni]

\* A BuildOutput whose counts, code size and resource figures grow with
\* level; the optional types and debug_info are present or not.
Snapshot(level, totalBytes, debugInfo, hasTypes) ==
    [analysis_results |->
        [classes |-> AnalysisResult(10 * level, 6 * level, 2 * level, level),
         types |-> IF hasTypes
                   THEN Some(AnalysisResult(10 * level + 4, 6 * level + 1,
                                            2 * level + 1, level + 1))
                   ELSE None,
         fields |-> AnalysisResult(20 * level, 9 * level, 3 * level, level),
         methods |-> AnalysisResult(50 * level, 30 * level, 4 * level, 2 * level)],
     image_details |->
        [total_bytes |-> totalBytes,
         code_area |-> [bytes |-> 4000 * level, compilation_units |-> 30 * level],
         image_heap |-> [bytes |-> 300000,
                         objects |-> Some([count |-> 5000]),
                         resources |-> [count |-> 7, bytes |-> 2048]],
         debug_info |-> debugInfo],
     resource_usage |->
        [cpu |-> [load |-> level, total_cores |-> 128],
         garbage_collection |-> [count |-> 20, total_secs |-> level],
         memory |-> [system_total |-> BYTES_TO_GiB, peak_rss_bytes |-> 10240 * level],
         total_secs |-> Some(10 * level)]]

Snapshots ==
    {Snapshot(level, totalBytes, debugInfo, hasTypes) :
        level \in {100, 109},
        totalBytes \in {1000000, 1100000},
        debugInfo \in {None, Some([bytes |-> 100000])},
        hasTypes \in BOOLEAN}

\* values of the input native-image-pr-comparison-parameter
PRCompareParas ==
    {<<>>,
     <<"I", "m", "a", "g", "e", " ", "D", "e", "t", "a", "i", "l", "s">>,
     <<"a", "n", "a", "l", "y", "s", "i", "s", " ", "r", "e", "s", "u", "l",
       "t", "s">>,
     <<"R", "E", "S", "O", "U", "R", "C", "E", " ", "U", "S", "A", "G", "E">>,
     <<"a", "n", "a", "l", "y", "s", "i", "s", " ", "r", "e", "s", "u", "l",
       "t", "s", ",", " ", "i", "m", "a", "g", "e", " ", "d", "e", "t", "a",
       "i", "l", "s">>,
     <<"A", "n", "a", "l", "y", "s", "i", "s", " ", "R", "e", "s", "u", "l",
       "t", "s", ",", "R", "e", "s", "o", "u", "r", "c", "e", " ", "U", "s",
       "a", "g", "e">>,
     <<"i", "m", "a", "g", "e", " ", "d", "e", "t", "a", "i", "l", "s", " ",
       "r", "e", "s", "o", "u", "r", "c", "e", " ", "u", "s", "a", "g", "e">>,
     <<"A", "n", "a", "l", "y", "s", "i", "s", " ", "r", "e", "s", "u", "l",
       "t", "s", ",", " ", "I", "m", "a", "g", "e", " ", "d", "e", "t", "a",
       "i", "l", "s", ",", " ", "R", "e", "s", "o", "u", "r", "c", "e", " ",
       "u", "s", "a", "g", "e">>,
     <<"i", "m", "a", "g", "e", " ", " ", "d", "e", "t", "a", "i", "l", "s">>,
     <<"a", "n", "a", "l", "y", "s", "i", "s", "_", "r", "e", "s", "u", "l",
       "t", "s", ",", "r", "e", "s", "o", "u", "r", "c", "e", " ", "u", "s",
       "a", "g", "e">>}

InitReport ==
    /\ pc = "render"
    /\ IdleRun
    /\ current \in Snapshots
    /\ baseline \in Snapshots
    /\ report = [kind |-> "none"]
    /\ value = 0 /\ compareValue = None /\ bounds = <<98, 108>>
    /\ column = "plain" /\ cells = [s \in BOOLEAN |-> None]
    /\ argA = 0 /\ argB = 0
    /\ out = [fn |-> "", text |-> NoText]

\* createReport(buildOutput)
RenderReport ==
    /\ pc = "render"
    /\ report' = createReport(current, None)
    /\ pc' = "rendered"
    /\ UNCHANGED <<classifierVars, derivationVars, current, baseline, runVars>>

\* createReport(buildOutput, compareBranchBuildOutput)
RenderComparison ==
    /\ pc = "render"
    /\ report' = createReport(current, Some(baseline))
    /\ pc' = "rendered"
    /\ UNCHANGED <<classifierVars, derivationVars, current, baseline, runVars>>

\* createPRComparison(buildOutput, prMetrics)
RenderPRComparison ==
    /\ pc = "render"
    /\ \E comparePara \in PRCompareParas :
          report' = createPRComparison(current, baseline, comparePara)
    /\ pc' = "rendered"
    /\ UNCHANGED <<classifierVars, derivationVars, current, baseline, runVars>>

NextReport == RenderReport \/ RenderComparison \/ RenderPRComparison

SpecReport == InitReport /\ [][NextReport]_vars

---------------------------------------------------------------------------
(* The inputs of the action and setUpNativeImageBuildReports *)

areJobReportsEnabled == inputs.jobReports
arePRReportsEnabled == inputs.isPREvent /\ inputs.prReports
arePRBaseComparisonEnabled == inputs.isPREvent /\ inputs.prComparison
getPRComparePara == inputs.comparePara

\* c.VERSION_LATEST, c.VERSION_DEV and c.MANDREL_NAMESPACE of ../constants
VERSION_LATEST == <<"l", "a", "t", "e", "s", "t">>
VERSION_DEV == <<"d", "e", "v">>
MANDREL_NAMESPACE == <<"m", "a", "n", "d", "r", "e", "l", "-">>

\* String.prototype.startsWith
startsWith(s, prefix) ==
    Len(s) >= Len(prefix) /\ SubSeq(s, 1, Len(prefix)) = prefix

DigitValue(ch) ==
    CASE ch = "0" -> 0
      [] ch = "1" -> 1
      [] ch = "2" -> 2
      [] ch = "3" -> 3
      [] ch = "4" -> 4
      [] ch = "5" -> 5
      [] ch = "6" -> 6
      [] ch = "7" -> 7
      [] ch = "8" -> 8
      [] ch = "9" -> 9

\* the numbers between the dots of s from position i on; n is the number
\* read so far
RECURSIVE VersionParts(_, _, _)
VersionParts(s, i, n) ==
    IF i > Len(s) THEN <<n>>
    ELSE IF s[i] = "." THEN <<n>> \o VersionParts(s, i + 1, 0)
    ELSE VersionParts(s, i + 1, 10 * n + DigitValue(s[i]))

\* toSemVer of ../utils: major.minor.patch of a dotted version
toSemVer(version) ==
    LET parts == VersionParts(version, 1, 0)
    IN [i \in 1..3 |-> IF i <= Len(parts) THEN parts[i] ELSE 0]

\* gte of the semver package
gte(a, b) ==
    \/ a[1] > b[1]
    \/ a[1] = b[1] /\ a[2] > b[2]
    \/ a[1] = b[1] /\ a[2] = b[2] /\ a[3] >= b[3]

\* '22.2.0'
MinimumVersion == <<22, 2, 0>>

\* the default options file and the option that requests the build output
NATIVE_IMAGE_CONFIG_FILE == "native-image-options.properties"
BuildOutputJSONFileOption == "-H:BuildOutputJSONFile=native-image-build-output.json"

\* getNativeImageOptionsFile: the file named by the environment variable,
\* or the default file, which is then exported
getNativeImageOptionsFile(w) ==
    IF w.NATIVE_IMAGE_CONFIG_FILE_ENV = None
    THEN [optionsFile |-> NATIVE_IMAGE_CONFIG_FILE,
          world |-> [w EXCEPT !.NATIVE_IMAGE_CONFIG_FILE_ENV =
                                  Some(NATIVE_IMAGE_CONFIG_FILE)]]
    ELSE [optionsFile |-> Get(w.NATIVE_IMAGE_CONFIG_FILE_ENV), world |-> w]

\* setNativeImageOption: the world after it; a file is the sequence of its
\* words
setNativeImageOption(w, v) ==
    LET got == getNativeImageOptionsFile(w)
        optionsFile == got.optionsFile
    IN IF got.world.files[optionsFile] # None
       THEN [got.world EXCEPT !.files[optionsFile] =
                                  Some(Append(Get(@), v))]
       ELSE [got.world EXCEPT !.files[optionsFile] =
                                  Some(<<"NativeImageArgs", "=", v>>)]

\* values of the input version
GraalVMVersions ==
    {<<"l", "a", "t", "e", "s", "t">>,
     <<"d", "e", "v">>,
     <<"2", "1", ".", "3", ".", "0">>,
     <<"2", "2", ".", "1", ".", "0">>,
     <<"2", "2", ".", "2", ".", "0">>,
     <<"2", "2", ".", "3", ".", "1">>,
     <<"2", "3", ".", "0", ".", "0">>,
     <<"m", "a", "n", "d", "r", "e", "l", "-", "l", "a", "t", "e", "s", "t">>,
     <<"m", "a", "n", "d", "r", "e", "l", "-", "2", "3", ".", "0", ".", "0", ".", "0", "-", "F", "i", "n", "a", "l">>}

OptionsFiles == {NATIVE_IMAGE_CONFIG_FILE, "custom.properties"}

\* the files and environment that a run of setUpNativeImageBuildReports finds
WorldBeforeSetUp(envSet, fileExists) ==
    LET optionsFile == IF envSet THEN "custom.properties"
                       ELSE NATIVE_IMAGE_CONFIG_FILE
    IN [NATIVE_IMAGE_CONFIG_FILE_ENV |->
            IF envSet THEN Some("custom.properties") ELSE None,
        files |-> [f \in OptionsFiles |->
                      IF fileExists /\ f = optionsFile
                      THEN Some(<<"NativeImageArgs", "=", "--no-fallback">>)
                      ELSE None]]

InitSetUp ==
    /\ pc = "setUp"
    /\ \E jobReports \in BOOLEAN, isPREvent \in BOOLEAN, prReports \in BOOLEAN,
          isGraalVMforJDK17OrLater \in BOOLEAN, graalVMVersion \in GraalVMVersions,
          envSet \in BOOLEAN, fileExists \in BOOLEAN :
          /\ inputs = [jobReports |-> jobReports, isPREvent |-> isPREvent,
                       prReports |-> prReports,
                       isGraalVMforJDK17OrLater |-> isGraalVMforJDK17OrLater,
                       graalVMVersion |-> graalVMVersion,
                       envSet |-> envSet, fileExists |-> fileExists]
          /\ world = WorldBeforeSetUp(envSet, fileExists)
    /\ locals = <<>> /\ effects = <<>>
    /\ value = 0 /\ compareValue = None /\ bounds = <<98, 108>>
    /\ column = "plain" /\ cells = [s \in BOOLEAN |-> None]
    /\ argA = 0 /\ argB = 0
    /\ out = [fn |-> "", text |-> NoText]
    /\ current = None /\ baseline = None /\ report = [kind |-> "none"]

\* setUpNativeImageBuildReports with the version gate left out
setUpNativeImageBuildReports_NoVersionGate ==
    /\ pc = "setUp"
    /\ IF ~(areJobReportsEnabled \/ arePRReportsEnabled)
       THEN UNCHANGED <<world, effects>>
       ELSE /\ effects' = Append(effects, [op |-> "info"])
            /\ world' = setNativeImageOption(world, BuildOutputJSONFileOption)
    /\ pc' = "returned"
    /\ UNCHANGED <<classifierVars, derivationVars, reportVars, inputs, locals>>

setUpNativeImageBuildReports ==
    /\ pc = "setUp"
    /\ LET graalVMVersion == inputs.graalVMVersion
           isRequired == areJobReportsEnabled \/ arePRReportsEnabled
           isSupported ==
               \/ inputs.isGraalVMforJDK17OrLater
               \/ graalVMVersion = VERSION_LATEST
               \/ graalVMVersion = VERSION_DEV
               \/ /\ ~startsWith(graalVMVersion, MANDREL_NAMESPACE)
                  /\ gte(toSemVer(graalVMVersion), MinimumVersion)
       IN IF ~isRequired
          THEN UNCHANGED <<world, effects>>
          ELSE IF ~isSupported
          THEN /\ effects' = Append(effects, [op |-> "warning"])
               /\ UNCHANGED world
          ELSE /\ effects' = Append(effects, [op |-> "info"])
               /\ world' = setNativeImageOption(world, BuildOutputJSONFileOption)
    /\ pc' = "returned"
    /\ UNCHANGED <<classifierVars, derivationVars, reportVars, inputs, locals>>

NextSetUp == setUpNativeImageBuildReports

SpecSetUp == InitSetUp /\ [][NextSetUp]_vars

---------------------------------------------------------------------------
(* generateReports.  Every await is a step of its own, so that the stored  *)
(* base-branch metrics can change between two steps of one run.            *)

\* A JSON text: one that JSON.parse rejects, one that parses to an object
\* without the fields of BuildOutput ("{}"), or the text of a BuildOutput
Malformed == [json |-> "malformed"]
Incomplete == [json |-> "incomplete"]
Document(snapshot) == [json |-> "BuildOutput", data |-> snapshot]

\* JSON.parse returns; it throws a SyntaxError otherwise
Parses(text) == text.json # "malformed"
\* reading the fields of the parsed object does not throw a TypeError
Conforms(text) == text.json = "BuildOutput"

\* getPrBaseBranchMetrics of ../utils: the metrics stored for the base branch
getPrBaseBranchMetrics(w) == w.baseMetrics

MaxBaseChanges == 1

BuildOutputFiles ==
    {None, Some(Malformed), Some(Incomplete),
     Some(Document(Snapshot(100, 1100000, Some([bytes |-> 100000]), TRUE)))}

BaseMetrics ==
    {Malformed, Incomplete,
     Document(Snapshot(100, 1000000, None, TRUE)),
     Document(Snapshot(109, 1000000, Some([bytes |-> 100000]), TRUE)),
     Document(Snapshot(109, 1100000, None, FALSE))}

GenerateParas ==
    {<<"I", "m", "a", "g", "e", " ", "D", "e", "t", "a", "i", "l", "s", ",", " ", "R", "e", "s", "o", "u", "r", "c", "e", " ", "U", "s", "a", "g", "e">>,
     <<"a", "n", "a", "l", "y", "s", "i", "s", " ", "r", "e", "s", "u", "l", "t", "s">>}

NoLocals ==
    [buildOutput |-> None, report |-> None, treeSha |-> None, fetched |-> None,
     compareBranchBuildOutput |-> None, prReport |-> None, prMetrics |-> None,
     error |-> None]

\* an exception leaves generateReports
Throw(name, document) ==
    /\ locals' = [locals EXCEPT !.error = Some([name |-> name, document |-> document])]
    /\ pc' = "failed"

InitGenerate ==
    /\ pc = "generate"
    /\ \E jobReports \in BOOLEAN, isPREvent \in BOOLEAN, prReports \in BOOLEAN,
          prComparison \in BOOLEAN, comparePara \in GenerateParas :
          inputs = [jobReports |-> jobReports, isPREvent |-> isPREvent,
                    prReports |-> prReports, prComparison |-> prComparison,
                    comparePara |-> comparePara]
    /\ \E file \in BuildOutputFiles, metrics \in BaseMetrics :
          world = [buildOutputFile |-> file, baseMetrics |-> metrics,
                   baseChanges |-> 0]
    /\ locals = NoLocals /\ effects = <<>>
    /\ value = 0 /\ compareValue = None /\ bounds = <<98, 108>>
    /\ column = "plain" /\ cells = [s \in BOOLEAN |-> None]
    /\ argA = 0 /\ argB = 0
    /\ out = [fn |-> "", text |-> NoText]
    /\ current = None /\ baseline = None /\ report = [kind |-> "none"]

\* ReadBuildOutput without the warning for a missing file
ReadBuildOutput_Silent ==
    /\ pc = "generate"
    /\ IF ~(areJobReportsEnabled \/ arePRReportsEnabled)
       THEN pc' = "done" /\ UNCHANGED <<locals, effects>>
       ELSE IF world.buildOutputFile = None
       THEN /\ pc' = "done"
            /\ UNCHANGED <<locals, effects>>
       ELSE IF ~Parses(Get(world.buildOutputFile))
       THEN Throw("SyntaxError", "buildOutput") /\ UNCHANGED effects
       ELSE IF ~Conforms(Get(world.buildOutputFile))
       THEN Throw("TypeError", "buildOutput") /\ UNCHANGED effects
       ELSE /\ locals' = [locals EXCEPT
                             !.buildOutput = Some(Get(world.buildOutputFile).data),
                             !.report = Some(createReport(
                                           Get(world.buildOutputFile).data, None))]
            /\ pc' = "summary"
            /\ UNCHANGED effects
    /\ UNCHANGED <<classifierVars, derivationVars, reportVars, inputs, world>>

\* lines 131-142: the enabled test, the file test, JSON.parse and
\* createReport(buildOutput)
ReadBuildOutput ==
    /\ pc = "generate"
    /\ IF ~(areJobReportsEnabled \/ arePRReportsEnabled)
       THEN pc' = "done" /\ UNCHANGED <<locals, effects>>
       ELSE IF world.buildOutputFile = None
       THEN /\ effects' = Append(effects, [op |-> "warning"])
            /\ pc' = "done"
            /\ UNCHANGED locals
       ELSE IF ~Parses(Get(world.buildOutputFile))
       THEN Throw("SyntaxError", "buildOutput") /\ UNCHANGED effects
       ELSE IF ~Conforms(Get(world.buildOutputFile))
       THEN Throw("TypeError", "buildOutput") /\ UNCHANGED effects
       ELSE /\ locals' = [locals EXCEPT
                             !.buildOutput = Some(Get(world.buildOutputFile).data),
                             !.report = Some(createReport(
                                           Get(world.buildOutputFile).data, None))]
            /\ pc' = "summary"
            /\ UNCHANGED effects
    /\ UNCHANGED <<classifierVars, derivationVars, reportVars, inputs, world>>

\* lines 143-146: core.summary.addRaw(report), await core.summary.write()
WriteSummary ==
    /\ pc = "summary"
    /\ IF areJobReportsEnabled
       THEN effects' = Append(effects, [op |-> "summary", body |-> Get(locals.report)])
       ELSE UNCHANGED effects
    /\ pc' = "comment"
    /\ UNCHANGED <<classifierVars, derivationVars, reportVars, inputs, world, locals>>

\* lines 147-149: await createPRComment(report)
PostReport ==
    /\ pc = "comment"
    /\ IF arePRReportsEnabled /\ ~arePRBaseComparisonEnabled
       THEN effects' = Append(effects, [op |-> "comment", kind |-> "report",
                                        body |-> Get(locals.report)])
       ELSE UNCHANGED effects
    /\ pc' = "createTree"
    /\ UNCHANGED <<classifierVars, derivationVars, reportVars, inputs, world, locals>>

\* line 151: await createTree(JSON.stringify(buildOutput))
CreateTree ==
    /\ pc = "createTree"
    /\ effects' = Append(effects, [op |-> "createTree",
                                   content |-> Document(Get(locals.buildOutput))])
    /\ locals' = [locals EXCEPT !.treeSha = Some("treeSha")]
    /\ pc' = "createRef"
    /\ UNCHANGED <<classifierVars, derivationVars, reportVars, inputs, world>>

\* line 152: await createRef(treeSha), and the test of line 154
CreateRef ==
    /\ pc = "createRef"
    /\ effects' = Append(effects, [op |-> "createRef", sha |-> Get(locals.treeSha)])
    /\ pc' = IF arePRBaseComparisonEnabled THEN "fetchBase" ELSE "done"
    /\ UNCHANGED <<classifierVars, derivationVars, reportVars, inputs, world, locals>>

\* FetchBase taking the snapshot of this build for the base without a call
FetchBase_NotCalled ==
    /\ pc = "fetchBase"
    /\ locals' = [locals EXCEPT !.fetched = Some(Document(Get(locals.buildOutput)))]
    /\ pc' = "compare"
    /\ UNCHANGED <<classifierVars, derivationVars, reportVars, inputs, world, effects>>

\* line 155: await getPrBaseBranchMetrics()
FetchBase ==
    /\ pc = "fetchBase"
    /\ effects' = Append(effects, [op |-> "getPrBaseBranchMetrics"])
    /\ locals' = [locals EXCEPT !.fetched = Some(getPrBaseBranchMetrics(world))]
    /\ pc' = "compare"
    /\ UNCHANGED <<classifierVars, derivationVars, reportVars, inputs, world>>

\* lines 156-157 once compareBranchBuildOutput is parsed: prReport is
\* rendered and posted
PostPrReport(compareBranchBuildOutput, prReport) ==
    /\ locals' = [locals EXCEPT
                     !.compareBranchBuildOutput = Some(compareBranchBuildOutput),
                     !.prReport = Some(prReport),
                     !.fetched = None]
    /\ effects' = Append(effects, [op |-> "comment", kind |-> "comparison",
                                   body |-> prReport])
    /\ pc' = "fetchMetrics"

\* lines 155-157: JSON.parse of what was fetched,
\* createReport(buildOutput, compareBranchBuildOutput), createPRComment
PostComparison ==
    /\ pc = "compare"
    /\ IF ~Parses(Get(locals.fetched))
       THEN Throw("SyntaxError", "compareBranchBuildOutput") /\ UNCHANGED effects
       ELSE IF ~Conforms(Get(locals.fetched))
       THEN Throw("TypeError", "compareBranchBuildOutput") /\ UNCHANGED effects
       ELSE PostPrReport(Get(locals.fetched).data,
                         createReport(Get(locals.buildOutput),
                                      Some(Get(locals.fetched).data)))
    /\ UNCHANGED <<classifierVars, derivationVars, reportVars, inputs, world>>

\* lines 158-160: await getPrBaseBranchMetrics(), a second time
FetchMetrics ==
    /\ pc = "fetchMetrics"
    /\ effects' = Append(effects, [op |-> "getPrBaseBranchMetrics"])
    /\ locals' = [locals EXCEPT !.fetched = Some(getPrBaseBranchMetrics(world))]
    /\ pc' = "chart"
    /\ UNCHANGED <<classifierVars, derivationVars, reportVars, inputs, world>>

\* line 161 once prMetrics is parsed: the chart is posted, unless
\* createPRComparison threw
PostPrChart(prMetrics, chart) ==
    IF chart.kind = "TypeError"
    THEN /\ locals' = [locals EXCEPT
                          !.prMetrics = Some(prMetrics),
                          !.fetched = None,
                          !.error = Some([name |-> "TypeError", document |-> "none"])]
         /\ pc' = "failed"
         /\ UNCHANGED effects
    ELSE /\ locals' = [locals EXCEPT !.prMetrics = Some(prMetrics), !.fetched = None]
         /\ effects' = Append(effects, [op |-> "comment", kind |-> "chart",
                                        body |-> chart])
         /\ pc' = "done"

\* lines 158-161: JSON.parse of what was fetched,
\* createPRComparison(buildOutput, prMetrics), createPRComment
PostChart ==
    /\ pc = "chart"
    /\ IF ~Parses(Get(locals.fetched))
       THEN Throw("SyntaxError", "prMetrics") /\ UNCHANGED effects
       ELSE IF ~Conforms(Get(locals.fetched))
       THEN Throw("TypeError", "prMetrics") /\ UNCHANGED effects
       ELSE PostPrChart(Get(locals.fetched).data,
                        createPRComparison(Get(locals.buildOutput),
                                           Get(locals.fetched).data, getPRComparePara))
    /\ UNCHANGED <<classifierVars, derivationVars, reportVars, inputs, world>>

\* another job stores new metrics for the base branch during the run
BaseMetricsChange ==
    /\ pc \notin {"done", "failed"}
    /\ world.baseChanges < MaxBaseChanges
    /\ \E metrics \in BaseMetrics \ {world.baseMetrics} :
          world' = [world EXCEPT !.baseMetrics = metrics,
                                 !.baseChanges = @ + 1]
    /\ UNCHANGED <<pc, classifierVars, derivationVars, reportVars, inputs, locals,
                   effects>>

NextGenerate ==
    \/ ReadBuildOutput
    \/ WriteSummary
    \/ PostReport
    \/ CreateTree
    \/ CreateRef
    \/ FetchBase
    \/ PostComparison
    \/ FetchMetrics
    \/ PostChart
    \/ BaseMetricsChange

SpecGenerate == InitGenerate /\ [][NextGenerate]_vars

---------------------------------------------------------------------------
(* Claims about the classifier (checked under SpecClassifier) *)

Returned(s) == cells[s] # None
TheCell(s) == Get(cells[s])
ShownLines(c) == {i \in 1..Len(c.lines) : c.lines[i].shown}
HasBaseline == compareValue # None
PositiveBaseline == HasBaseline /\ Get(compareValue) > 0
JsRatio == FMul(FDiv(value, Get(compareValue)), 100)
\* the exact ratio current / baseline * 100 against a bound, by cross
\* multiplication
RatioBelow(b) == value * 100 < b * Get(compareValue)
RatioAbove(b) == value * 100 > b * Get(compareValue)
NonNumeric(t) == t.kind \in {"NaN", "Infinity"}

\* C1: for every current value, baseline > 0 and bounds lower < upper, the
\* cell holds exactly one of the three lines: the lower-band line when
\* ratio < lower, the upper-band line when ratio > upper, and the unmarked
\* delta for every other ratio, ratio = lower and ratio = upper included;
\* the cell is never left without a delta.
C1_ExactlyOneBand ==
    \A s \in BOOLEAN :
        (Returned(s) /\ PositiveBaseline) =>
            /\ TheCell(s).td
            /\ Cardinality(ShownLines(TheCell(s))) = 1
            /\ FLess(JsRatio, bounds[1]) => ShownLines(TheCell(s)) = {1}
            /\ FGreater(JsRatio, bounds[2]) => ShownLines(TheCell(s)) = {3}
            /\ (~FLess(JsRatio, bounds[1]) /\ ~FGreater(JsRatio, bounds[2]))
                  => ShownLines(TheCell(s)) = {2}

\* C2: for baseline > 0 the two polarities keep the same ratio bands and
\* print the same delta and percentage; only the markers differ: with
\* smallIsPositive a ratio below lower is green and one above upper is red,
\* without it red and green; the neutral line carries no marker.  With
\* (98, 108, true): ratio 90 is green, 103 unmarked, 120 red.
C2_PolaritySwapsMarkersOnly ==
    PositiveBaseline =>
        /\ \A s \in BOOLEAN : Returned(s) =>
              LET l == TheCell(s).lines
              IN /\ TheCell(s).td
                 /\ RatioBelow(bounds[1]) =>
                       l[1].shown /\ l[1].marker = (IF s THEN GREEN ELSE RED)
                 /\ RatioAbove(bounds[2]) =>
                       l[3].shown /\ l[3].marker = (IF s THEN RED ELSE GREEN)
                 /\ l[1].shown => l[1].marker = (IF s THEN GREEN ELSE RED)
                 /\ l[3].shown => l[3].marker = (IF s THEN RED ELSE GREEN)
                 /\ l[2].shown => l[2].marker = ""
        /\ (Returned(TRUE) /\ Returned(FALSE)) =>
              \A i \in 1..3 :
                 /\ TheCell(TRUE).lines[i].shown = TheCell(FALSE).lines[i].shown
                 /\ TheCell(TRUE).lines[i].delta = TheCell(FALSE).lines[i].delta
                 /\ TheCell(TRUE).lines[i].percent = TheCell(FALSE).lines[i].percent
        /\ (Returned(TRUE) /\ bounds = <<98, 108>> /\ Get(compareValue) = 100) =>
              /\ value = 90 => (ShownLines(TheCell(TRUE)) = {1}
                                /\ TheCell(TRUE).lines[1].marker = GREEN)
              /\ value = 103 => (ShownLines(TheCell(TRUE)) = {2}
                                 /\ TheCell(TRUE).lines[2].marker = "")
              /\ value = 120 => (ShownLines(TheCell(TRUE)) = {3}
                                 /\ TheCell(TRUE).lines[3].marker = RED)

\* both polarities have classified a ratio of 90 under (98, 108): green
\* with smallIsPositive, red without
C2_Witness ==
    /\ column = "plain" /\ bounds = <<98, 108>>
    /\ value = 90 /\ compareValue = Some(100)
    /\ Returned(TRUE) /\ Returned(FALSE)
    /\ TheCell(TRUE).lines[1].marker = GREEN
    /\ TheCell(FALSE).lines[1].marker = RED
    /\ Text(TheCell(FALSE).lines[1].percent) = "-10.000%"

\* C3: with a baseline of 0 the cell is neutral: no improved or regressed
\* marker, and no Infinity or NaN in its text.
C3_ZeroBaselineNeutral ==
    \A s \in BOOLEAN :
        (Returned(s) /\ HasBaseline /\ Get(compareValue) = 0) =>
            \A i \in 1..3 :
                LET l == TheCell(s).lines[i]
                IN l.shown => /\ l.marker = ""
                              /\ ~NonNumeric(l.delta)
                              /\ ~NonNumeric(l.percent)

---------------------------------------------------------------------------
(* Claims about the derivation helpers (checked under SpecDerivation) *)

\* C6: with a zero denominator toPercent(part, 0) and
\* getDiffPercent(0, current) return an explicit not-applicable indicator,
\* never NaN% or Infinity%.
C6_ZeroDenominatorGuarded ==
    (out.fn \in {"toPercent", "getDiffPercent"} /\ argB = 0) =>
        /\ ~NonNumeric(out.text)
        /\ Text(out.text) \notin {"NaN%", "Infinity%", "+NaN%", "+Infinity%"}

UnitOf(magnitude) ==
    IF magnitude < 1024 THEN "B"
    ELSE IF magnitude < 1024 * 1024 THEN "KB"
    ELSE IF magnitude < 1024 * 1024 * 1024 THEN "MB"
    ELSE "GB"

\* C7: bytesToHuman selects the unit from |b| alone (B below 1024, KB below
\* 1024^2, MB below 1024^3, GB otherwise), prints two decimals, gives the
\* number the sign of b, and uses for -b the unit it uses for b.
C7_UnitByMagnitude ==
    out.fn = "bytesToHuman" =>
        /\ out.text.kind = "num" /\ out.text.digits = 2
        /\ out.text.unit = UnitOf(Abs(argA))
        /\ out.text.unit = bytesToHuman(-argA).unit
        /\ argA < 0 => (out.text.sign = "-" /\ out.text.whole + out.text.frac > 0)
        /\ argA > 0 => (out.text.sign = "" /\ out.text.whole + out.text.frac > 0)
        /\ argA = 0 => (out.text.sign = "" /\ out.text.whole + out.text.frac = 0)
        /\ argA = 1023 => Text(out.text) = "1023.00B"
        /\ argA = 1024 => Text(out.text) = "1.00KB"
        /\ argA = 1024 * 1024 => Text(out.text) = "1.00MB"
        /\ argA = 1024 * 1024 * 1024 => Text(out.text) = "1.00GB"
        /\ argA = -1536 => Text(out.text) = "-1.50KB"

\* a negative count of exactly one KiB was printed
C7_Witness ==
    out.fn = "bytesToHuman" /\ argA = -1024 /\ Text(out.text) = "-1.00KB"

\* C8: for baseline > 0 and current >= 0 getDiffPercent starts with "+"
\* exactly when current >= baseline and with "-" otherwise; its magnitude is
\* |current - baseline| / baseline * 100 to three decimals (within half a
\* thousandth); (100, 150) gives +50.000% and (150, 100) gives -33.333%; the
\* sign agrees with that of the delta current - baseline printed beside it.
C8_SignedPercentage ==
    (out.fn = "getDiffPercent" /\ argB > 0) =>
        /\ out.text.kind = "num" /\ out.text.digits = 3 /\ out.text.unit = "%"
        /\ out.text.sign = (IF argA >= argB THEN "+" ELSE "-")
        /\ 2 * Abs((out.text.whole * 1000 + out.text.frac) * argB
                   - 100000 * Abs(argA - argB)) <= argB
        /\ (argB = 100 /\ argA = 150) => Text(out.text) = "+50.000%"
        /\ (argB = 150 /\ argA = 100) => Text(out.text) = "-33.333%"
        /\ (out.text.sign = "-") <=> (IntToFixed(argA - argB, 2).sign = "-")

\* a fall from 150 to 100 was printed
C8_Witness ==
    /\ out.fn = "getDiffPercent" /\ argB = 150 /\ argA = 100
    /\ Text(out.text) = "-33.333%"

---------------------------------------------------------------------------
(* Claims about the reports (checked under SpecReport) *)

OwnTypes(snapshot) ==
    IF snapshot.analysis_results.types # None
    THEN Get(snapshot.analysis_results.types)
    ELSE snapshot.analysis_results.classes

OwnDebugInfoBytes(snapshot) ==
    IF snapshot.image_details.debug_info # None
    THEN Get(snapshot.image_details.debug_info).bytes
    ELSE 0

OwnOtherBytes(snapshot) ==
    snapshot.image_details.total_bytes - snapshot.image_details.code_area.bytes
    - snapshot.image_details.image_heap.bytes - OwnDebugInfoBytes(snapshot)

OwnCategory(snapshot, col) ==
    IF col = "types" THEN OwnTypes(snapshot) ELSE snapshot.analysis_results[col]

\* <<current value, baseline value, compare cell>> of every classified
\* metric of a comparison report, by section
AnalysisMetrics ==
    {<<OwnCategory(current, col)[r], OwnCategory(baseline, col)[r],
       report.analysis[col][r].compare>> :
        col \in {"types", "fields", "methods"}, r \in AnalysisRows}

DetailsMetrics ==
    {<<current.image_details.code_area.bytes, baseline.image_details.code_area.bytes,
       report.details.code_area.compare>>,
     <<current.image_details.image_heap.bytes, baseline.image_details.image_heap.bytes,
       report.details.image_heap.compare>>,
     <<OwnOtherBytes(current), OwnOtherBytes(baseline), report.details.other.compare>>,
     <<current.image_details.total_bytes, baseline.image_details.total_bytes,
       report.details.total.compare>>}

ResourceMetrics ==
    {<<current.resource_usage.garbage_collection.total_secs,
       baseline.resource_usage.garbage_collection.total_secs,
       report.resources.garbage_collection.compare>>,
     <<current.resource_usage.memory.peak_rss_bytes,
       baseline.resource_usage.memory.peak_rss_bytes,
       report.resources.peak_rss.compare>>,
     <<current.resource_usage.cpu.load, baseline.resource_usage.cpu.load,
       report.resources.cpu_load.compare>>}

Improved(c) == c.td /\ ShownLines(c) = {1} /\ c.lines[1].marker = GREEN
Neutral(c) == c.td /\ ShownLines(c) = {2} /\ c.lines[2].marker = ""
Regressed(c) == c.td /\ ShownLines(c) = {3} /\ c.lines[3].marker = RED

\* the metric m = <<v, b, cell>> is classified with (lower, upper, true)
\* wherever its exact ratio v / b * 100 is off the two bounds
ClassifiedWith(m, lower, upper) ==
    /\ m[1] * 100 < lower * m[2] => Improved(m[3])
    /\ (lower * m[2] < m[1] * 100 /\ m[1] * 100 < upper * m[2]) => Neutral(m[3])
    /\ m[1] * 100 > upper * m[2] => Regressed(m[3])

OnlyTotalBytesDiffer ==
    /\ baseline.image_details.total_bytes = 1000000
    /\ current = [baseline EXCEPT !.image_details.total_bytes = 1100000]

\* C4: in createReport(current, baseline) with snapshots that differ only in
\* total_bytes, 1,100,000 against 1,000,000, the Total row of Image Details
\* is classified as regressed.
C4_TotalRowRegressed ==
    (report.kind = "comparison" /\ OnlyTotalBytesDiffer) =>
        Regressed(report.details.total.compare)

\* the comparison of such a pair was rendered, with its Total row
C4_Witness ==
    /\ report.kind = "comparison" /\ OnlyTotalBytesDiffer
    /\ Text(report.details.total.compare.lines[3].delta) = "97.66KB"
    /\ Text(report.details.total.compare.lines[3].percent) = "+10.000%"
    /\ Text(report.details.total.size) = "1.05MB"

\* C5 as stated: every classified delta of all three sections uses
\* (98, 108, true), so a ratio strictly between 108% and 110% is regressed
\* for any metric.
C5_DefaultPolicyEverywhere ==
    report.kind = "comparison" =>
        \A m \in AnalysisMetrics \cup DetailsMetrics \cup ResourceMetrics :
            /\ ClassifiedWith(m, 98, 108)
            /\ (108 * m[2] < m[1] * 100 /\ m[1] * 100 < 110 * m[2]) => Regressed(m[3])

\* C5 as amended: Analysis Results and Resource Usage classify with
\* (98, 108, true), Image Details with (98, 110, true); a ratio strictly
\* between 108% and 110% is regressed in the first two and neutral in Image
\* Details.
C5_PolicyPerSection ==
    report.kind = "comparison" =>
        /\ \A m \in AnalysisMetrics \cup ResourceMetrics :
              /\ ClassifiedWith(m, 98, 108)
              /\ (108 * m[2] < m[1] * 100 /\ m[1] * 100 < 110 * m[2]) => Regressed(m[3])
        /\ \A m \in DetailsMetrics :
              /\ ClassifiedWith(m, 98, 110)
              /\ (108 * m[2] < m[1] * 100 /\ m[1] * 100 < 110 * m[2]) => Neutral(m[3])

\* a comparison in which the code area and the counts stand at 109% of the
\* baseline: the counts are regressed, the code area is neutral
C5_Witness ==
    /\ report.kind = "comparison"
    /\ current.image_details.code_area.bytes = 436000
    /\ baseline.image_details.code_area.bytes = 400000
    /\ Neutral(report.details.code_area.compare)
    /\ Text(report.details.code_area.compare.lines[2].percent) = "+9.000%"
    /\ Regressed(report.analysis.fields["total"].compare)
    /\ Regressed(report.resources.garbage_collection.compare)

\* C9: in every report kind and for each snapshot shown, Other data is that
\* snapshot's total_bytes - code_area.bytes - image_heap.bytes - its own
\* debug_info.bytes (0 without debug_info).
C9_OtherDataOfOwnSnapshot ==
    /\ report.kind \in {"report", "comparison"} =>
          report.details.other.size = bytesToHuman(OwnOtherBytes(current))
    /\ report.kind = "comparison" =>
          report.details.other.compare =
             getCompareColumnBytes(OwnOtherBytes(current),
                                   Some(OwnOtherBytes(baseline)), 98, 110, TRUE)
    /\ (report.kind = "chart" /\ report.details # None) =>
          /\ Get(report.details).other.recent.end = OwnOtherBytes(current)
          /\ Get(report.details).other.base.end = OwnOtherBytes(baseline)

\* C10: for each snapshot on its own the Types rows show its
\* analysis_results.types when it has one and its classes otherwise, in the
\* tabular report and in the chart comparison; rendering completes without
\* error whichever of the two snapshots has types.
C10_TypesOfOwnSnapshot ==
    /\ report.kind # "TypeError"
    /\ report.kind \in {"report", "comparison"} =>
          \A r \in AnalysisRows : report.analysis.types[r].count = OwnTypes(current)[r]
    /\ report.kind = "comparison" =>
          \A r \in AnalysisRows :
             report.analysis.types[r].compare =
                getCompareColumn(OwnTypes(current)[r], Some(OwnTypes(baseline)[r]),
                                 98, 108, TRUE)
    /\ (report.kind = "chart" /\ report.analysis # None) =>
          \A r \in AnalysisRows :
             /\ Get(report.analysis).types[r].recent.end = OwnTypes(current)[r]
             /\ Get(report.analysis).types[r].base.end = OwnTypes(baseline)[r]

---------------------------------------------------------------------------
(* Claims about the chart comparison (checked under SpecReport) *)

ChartCalled == pc = "rendered" /\ report.kind \in {"chart", "TypeError"}

ChartBlock(category) ==
    CASE category = "analysis results" -> report.analysis
      [] category = "image details" -> report.details
      [] category = "resource usage" -> report.resources

Requested(category) == includes(toLowerCase(report.parameter), Chars(category))

RequestedCategories == {c \in Categories : Requested(c)}

\* C14: every call of createPRComparison returns a report that holds the
\* chart block of a category exactly when the lower-cased configuration
\* string contains the category's literal, for each category on its own and
\* whatever the letter case of the configuration, and that ends with the
\* footer.
C14_BlockPerRequestedCategory ==
    ChartCalled =>
        /\ report.kind = "chart"
        /\ report.footer
        /\ \A c \in Categories : (ChartBlock(c) # None) <=> Requested(c)
        /\ report.parameter = <<>> =>
              \A c \in Categories : ChartBlock(c) = None
        /\ report.parameter = <<"R", "E", "S", "O", "U", "R", "C", "E", " ",
                                "U", "S", "A", "G", "E">> =>
              /\ report.resources # None
              /\ report.analysis = None /\ report.details = None
        /\ report.parameter = <<"i", "m", "a", "g", "e", " ", " ",
                                "d", "e", "t", "a", "i", "l", "s">> =>
              \A c \in Categories : ChartBlock(c) = None

---------------------------------------------------------------------------
(* Claims about the Image Details table (checked under SpecReport) *)

\* the rows of the Image Details table of the rendered report
DetailsRows ==
    {"code_area", "image_heap", "other", "total"}
    \cup (IF report.details.debug_info # None THEN {"debug_info"} ELSE {})

DetailsRow(name) ==
    IF name = "debug_info" THEN Get(report.details.debug_info)
    ELSE report.details[name]

\* the cells of a row: category, size, in %, the compare cell when the row
\* has one, details
RowCells(row) == 3 + (IF row.compare.td THEN 1 ELSE 0) + 1

\* C15: in a comparison the Image Details table has a debug info row exactly
\* when the current snapshot has debug_info, every row of the table has a
\* compare cell and so as many cells as the header has columns; in a report
\* of one snapshot neither the header nor any row has a compare cell.
C15_EveryDetailsRowCompared ==
    /\ report.kind \in {"report", "comparison"} =>
          ((report.details.debug_info # None)
              <=> (current.image_details.debug_info # None))
    /\ report.kind = "comparison" =>
          /\ Len(report.details.header) = 5
          /\ \A name \in DetailsRows :
                /\ DetailsRow(name).compare.td
                /\ RowCells(DetailsRow(name)) = Len(report.details.header)
    /\ report.kind = "report" =>
          /\ Len(report.details.header) = 4
          /\ \A name \in DetailsRows :
                /\ ~DetailsRow(name).compare.td
                /\ RowCells(DetailsRow(name)) = Len(report.details.header)

---------------------------------------------------------------------------
(* Claims about the Resource Usage chart (checked under SpecDerivation) *)

ResourceChartDrawn == report.kind = "resource chart" /\ argB > 0

ResourceMetricsOfChart == {"garbage_collection", "peak_rss", "cpu_load"}

\* the end of the base bar is the whole number nearest to
\* baseline / current * 100
NearestPercent(end) ==
    /\ end.kind = "num" /\ end.digits = 0 /\ end.frac = 0 /\ end.sign = ""
    /\ 2 * Abs(end.whole * argB - 100 * argA) <= argB

\* C16 as claimed: for a baseline argA >= 0 and a current value argB > 0 the
\* current bar of each of the three metrics ends at 100 and the base bar ends
\* at baseline / current * 100 to the nearest whole number, a number between
\* 0 and 100, also when the baseline is the larger of the two.
C16_BaseBarWithinScale ==
    ResourceChartDrawn =>
        \A m \in ResourceMetricsOfChart :
            /\ report.resources[m].recent.end = 100
            /\ NearestPercent(report.resources[m].base.end)
            /\ report.resources[m].base.end.whole \in 0..100

\* C16 as amended: the current bar ends at 100 and the base bar at
\* baseline / current * 100 to the nearest whole number; that number is
\* between 0 and 100 when the baseline is at most the current value and above
\* 100 when the baseline exceeds the current value by one percent or more.
C16_BaseBarRelativeToCurrent ==
    ResourceChartDrawn =>
        \A m \in ResourceMetricsOfChart :
            /\ report.resources[m].recent.end = 100
            /\ NearestPercent(report.resources[m].base.end)
            /\ argA <= argB => report.resources[m].base.end.whole \in 0..100
            /\ 100 * (argA - argB) >= argB =>
                  report.resources[m].base.end.whole > 100

\* a base figure of 150 was drawn against a current figure of 100
C16_Witness ==
    /\ ResourceChartDrawn /\ argA = 150 /\ argB = 100
    /\ \A m \in ResourceMetricsOfChart :
          Text(report.resources[m].base.end) = "150"

---------------------------------------------------------------------------
(* Claims about setUpNativeImageBuildReports (checked under SpecSetUp) *)

ReportsEnabled == inputs.jobReports \/ (inputs.isPREvent /\ inputs.prReports)

\* the versions of GraalVMVersions that are 'latest', 'dev' or a version of
\* at least 22.2.0 that is not one of Mandrel
SupportedVersions ==
    {<<"l", "a", "t", "e", "s", "t">>,
     <<"d", "e", "v">>,
     <<"2", "2", ".", "2", ".", "0">>,
     <<"2", "2", ".", "3", ".", "1">>,
     <<"2", "3", ".", "0", ".", "0">>}

ToolchainSupported ==
    inputs.isGraalVMforJDK17OrLater \/ inputs.graalVMVersion \in SupportedVersions

TheOptionsFile ==
    IF inputs.envSet THEN "custom.properties" ELSE NATIVE_IMAGE_CONFIG_FILE

OptionsBefore == WorldBeforeSetUp(inputs.envSet, inputs.fileExists).files

\* the option is the last word of the options file
OptionAdded ==
    /\ world.files[TheOptionsFile] # None
    /\ LET words == Get(world.files[TheOptionsFile])
       IN /\ words[Len(words)] = BuildOutputJSONFileOption
          /\ IF inputs.fileExists
             THEN words = Append(Get(OptionsBefore[TheOptionsFile]),
                                 BuildOutputJSONFileOption)
             ELSE words = <<"NativeImageArgs", "=", BuildOutputJSONFileOption>>
    /\ \A f \in OptionsFiles \ {TheOptionsFile} : world.files[f] = OptionsBefore[f]

Warned == \E i \in 1..Len(effects) : effects[i].op = "warning"

\* C13: when setUpNativeImageBuildReports has returned, the option
\* -H:BuildOutputJSONFile is added to the options file exactly when reports
\* are enabled and the toolchain is supported; with reports enabled and an
\* unsupported version there is a warning and the files are as before; with
\* reports disabled nothing is written and nothing is emitted.
C13_OptionIffEnabledAndSupported ==
    pc = "returned" =>
        /\ OptionAdded <=> (ReportsEnabled /\ ToolchainSupported)
        /\ (ReportsEnabled /\ ~ToolchainSupported) =>
              /\ Warned
              /\ world = WorldBeforeSetUp(inputs.envSet, inputs.fileExists)
        /\ ~ReportsEnabled =>
              /\ effects = <<>>
              /\ world = WorldBeforeSetUp(inputs.envSet, inputs.fileExists)
        /\ (ReportsEnabled /\ ToolchainSupported) => ~Warned

\* reports were enabled for GraalVM 22.1.0 on an older JDK: a warning, and
\* the existing options file is as it was
C13_Witness ==
    /\ pc = "returned" /\ ReportsEnabled /\ ~inputs.isGraalVMforJDK17OrLater
    /\ inputs.graalVMVersion = <<"2", "2", ".", "1", ".", "0">>
    /\ inputs.fileExists /\ Warned
    /\ world.files[TheOptionsFile] = Some(<<"NativeImageArgs", "=", "--no-fallback">>)

---------------------------------------------------------------------------
(* Claims about generateReports (checked under SpecGenerate) *)

\* the test of line 131
ReportingEnabled == areJobReportsEnabled \/ arePRReportsEnabled

Effects(ops) == {i \in 1..Len(effects) : effects[i].op \in ops}

\* what a run leaves behind: the job summary, a PR comment, the tree and the
\* ref of the snapshot
SideEffects == Effects({"summary", "comment", "createTree", "createRef"})

\* C11: when reporting is enabled and the telemetry file does not exist, the
\* run has ended as soon as it has taken a step, it has returned normally,
\* and the warning is all it did: no job summary, no PR comment, no tree, no
\* ref, no fetch of the baseline, and nothing was read or rendered.
C11_MissingFileWarnsOnly ==
    (ReportingEnabled /\ world.buildOutputFile = None /\ pc # "generate") =>
        /\ pc = "done"
        /\ effects = <<[op |-> "warning"]>>
        /\ locals = NoLocals

\* a run with job reports and the PR comparison enabled found no file
C11_Witness ==
    /\ pc = "done" /\ world.buildOutputFile = None
    /\ areJobReportsEnabled /\ arePRReportsEnabled /\ arePRBaseComparisonEnabled
    /\ Effects({"warning"}) = {1} /\ Len(effects) = 1

\* the run failed on a telemetry document: JSON.parse rejected it, or the
\* parsed object lacks the fields of BuildOutput
FailedOnDocument ==
    /\ pc = "failed"
    /\ locals.error # None
    /\ Get(locals.error).document \in {"buildOutput", "compareBranchBuildOutput", "prMetrics"}

\* C12: a run that failed because a telemetry document (the current
\* snapshot file or the fetched baseline) could not be deserialized has
\* written no job summary, posted no PR comment and created no tree and no
\* ref.
C12_NoSideEffectBeforeDocumentFailure ==
    FailedOnDocument => SideEffects = {}

\* the comments of one kind ("report", "comparison" or "chart")
Comments(kind) == {i \in Effects({"comment"}) : effects[i].kind = kind}

\* the calls of getPrBaseBranchMetrics that returned before effect i
FetchesBefore(i) == {j \in Effects({"getPrBaseBranchMetrics"}) : j < i}

\* the baseline snapshot has been fetched and parsed
BaselineParsed == locals.compareBranchBuildOutput # None

\* C17, as stated: with the PR base comparison enabled, no report is
\* rendered, written to the job summary or posted before the baseline
\* snapshot has been fetched and parsed.
C17_FetchBeforeAnyRendering ==
    arePRBaseComparisonEnabled =>
        ((locals.report # None \/ Effects({"summary", "comment"}) # {}) => BaselineParsed)

\* C17, amended: with the PR base comparison enabled, each comparison
\* report is rendered and posted only after the fetch of the baseline that
\* supplies it has returned and its result was parsed: the tabular report
\* after the first fetch, the chart report after the second.  The report of
\* the current snapshot alone is rendered, and written to the job summary
\* when job reports are enabled, before the first fetch, and is not posted
\* as a comment.
C17_ComparisonAfterItsFetch ==
    arePRBaseComparisonEnabled =>
        /\ \A i \in Comments("comparison") : Cardinality(FetchesBefore(i)) = 1
        /\ \A i \in Comments("chart") : Cardinality(FetchesBefore(i)) = 2
        /\ locals.prReport # None =>
              /\ BaselineParsed
              /\ Effects({"getPrBaseBranchMetrics"}) # {}
              /\ Get(locals.prReport).kind = "comparison"
        /\ locals.prMetrics # None => Cardinality(Effects({"getPrBaseBranchMetrics"})) = 2
        /\ \A j \in Effects({"getPrBaseBranchMetrics"}) :
              /\ locals.report # None
              /\ areJobReportsEnabled => \E i \in Effects({"summary"}) : i < j
        /\ Comments("report") = {}

\* a run with job reports and the PR base comparison enabled that posted
\* both comparison reports: summary, tree, ref, fetch, comment, fetch,
\* comment
C17_Witness ==
    /\ pc = "done" /\ arePRBaseComparisonEnabled /\ areJobReportsEnabled
    /\ Len(effects) = 7
    /\ Effects({"summary"}) = {1}
    /\ Effects({"getPrBaseBranchMetrics"}) = {4, 6}
    /\ Comments("comparison") = {5}
    /\ Comments("chart") = {7}

\* C18: in a run with the PR base comparison enabled that posted both
\* comparison comments, the tabular report and the chart report were
\* computed from the same baseline snapshot, and both were posted after the
\* tree and then the ref of the current snapshot were created.
C18_OneBaselineForBothComments ==
    (arePRBaseComparisonEnabled /\ Comments("comparison") # {} /\ Comments("chart") # {}) =>
        /\ locals.compareBranchBuildOutput = locals.prMetrics
        /\ \A c \in Comments("comparison") \cup Comments("chart") :
              \E t \in Effects({"createTree"}), r \in Effects({"createRef"}) : t < r /\ r < c
        /\ \A i \in Comments("comparison"), j \in Comments("chart") : i < j

=============================================================================
